---- MODULE Spec2Model ----
(***************************************************************************)
(* Tool gating of the docker-swarm MCP server: the filter pipeline of      *)
(* app/mcp/tool_gating.py (TaskTypeFilter, ResourceFilter, SecurityFilter, *)
(* ToolGateController) and the JSON-RPC dispatcher of                      *)
(* app/mcp/fastapi_mcp_integration.py (tools/list, tools/call and the      *)
(* per-session binding session_tools).                                     *)
(*                                                                         *)
(* A dict[str, Tool] is modelled by the set of its keys: Tool objects are  *)
(* immutable after load and keyed by name, and dict equality ignores       *)
(* insertion order.  The catalog maps each name to the Tool fields the     *)
(* gating code reads.                                                      *)
(***************************************************************************)
EXTENDS Integers, Sequences, FiniteSets, TLC

VARIABLES
    all_tools,      \* ToolRegistry.tools / ToolGateController.all_tools: name -> Tool
    config,         \* ToolGateController.config (FilterConfig)
    settings,       \* app.core.config.settings (the fields gating reads)
    session_tools,  \* DynamicToolGatingMCP.session_tools: session -> names
    gate,           \* last evaluation of get_available_tools (context and stage outputs)
    resp,           \* last request handled by mcp_endpoint and its answer
    last_list,      \* per session: the most recent tools/list answer sent
    handled,        \* requests mcp_endpoint accepted: headers, credential, session id
    pending,        \* tools/call requests suspended at the await of their service function
    written,        \* per session: the set the last write of session_tools stored
    intent,         \* classify_intent: the query classified and the task types detected
    retry           \* retry_with_backoff: the run of one decorated operation

vars == <<all_tools, config, settings, session_tools, gate, resp, last_list,
          handled, pending, written, intent, retry>>

-----------------------------------------------------------------------------
(* Values *)

None == "None"
\* FilterContext.detected_task_types = None (no classification ran); a
\* classification result is a set of task types, [] being {}.
NoDetection == {None}

\* Tool names.  NameOrder is their ascending string order ("A" < "B" < "C").
NameOrder == <<"A", "B", "C">>
Names == {NameOrder[i] : i \in 1..Len(NameOrder)}
NameRank(n) == CHOOSE i \in 1..Len(NameOrder) : NameOrder[i] = n

\* A tool name that is in no catalog (a tools/call may name anything).
UnknownName == "nope"

MetaOps == "meta-ops"
\* Task types the catalog and the allowlists use; "zz" is known to neither.
TaskTypes == {"x", "y", MetaOps}
UnknownTaskType == "zz"

-----------------------------------------------------------------------------
(* app/mcp/tool_gating.py: the filter pipeline *)

\* FilterConfig.task_type_allowlists.get(task_type, []): a task type with no
\* key has the empty allowlist.
AllowlistOf(allowlists, task_type) ==
    IF task_type \in DOMAIN allowlists THEN allowlists[task_type] ELSE {}

\* A policy that is restrictive under the strict limit only.
RestrictiveStrictOnly(st) == st.STRICT_CONTEXT_LIMIT

\* settings.STRICT_CONTEXT_LIMIT or not settings.INTENT_FALLBACK_TO_ALL
Restrictive(st) == st.STRICT_CONTEXT_LIMIT \/ ~st.INTENT_FALLBACK_TO_ALL

\* A resolution that honours detected task types only.
TaskTypesDetectedOnly(st, ctx) ==
    IF ctx.detected_task_types = NoDetection THEN {} ELSE ctx.detected_task_types

\* A resolution that prefers detected task types whatever INTENT_PRECEDENCE says.
TaskTypesIntentFirst(st, ctx) ==
    IF ctx.detected_task_types \notin {NoDetection, {}} THEN ctx.detected_task_types
    ELSE IF ctx.task_type = None THEN {} ELSE {ctx.task_type}

\* TaskTypeFilter.apply, precedence resolution: the task types honoured.
\* detected_task_types is NoDetection or a set of task types; task_type is None
\* or one task type ("if context.detected_task_types" is false for None and []).
TaskTypesToUse(st, ctx) ==
    LET detected == IF ctx.detected_task_types = NoDetection THEN {} ELSE ctx.detected_task_types
        explicit == IF ctx.task_type = None THEN {} ELSE {ctx.task_type}
    IN  IF st.INTENT_PRECEDENCE = "intent"
        THEN IF detected # {} THEN detected ELSE explicit
        ELSE IF explicit # {} THEN explicit ELSE detected

\* TaskTypeFilter._merge_allowlists
MergeAllowlists(allowlists, task_types) ==
    UNION {AllowlistOf(allowlists, t) : t \in task_types}

\* A task-type stage that keeps meta-ops tools when no task type is given.
TaskTypeFilterKeepingMetaOps(cat, allowlists, st, tools, ctx) ==
    IF ctx.query # None /\ ctx.detected_task_types = {} /\ Restrictive(st)
    THEN {}
    ELSE LET task_types_to_use == TaskTypesToUse(st, ctx)
             merged_allowlist == MergeAllowlists(allowlists, task_types_to_use)
         IN  IF task_types_to_use = {}
             THEN tools
             ELSE IF merged_allowlist = {}
                  THEN IF Restrictive(st) THEN {} ELSE tools
                  ELSE {n \in tools :
                          /\ n \in merged_allowlist
                          /\ \E t \in task_types_to_use : t \in cat[n].task_types}

\* A task-type stage that resolves the precedence first and short-circuits
\* only when no task type is left to use.
TaskTypeFilterResolvingFirst(cat, allowlists, st, tools, ctx) ==
    LET task_types_to_use == TaskTypesToUse(st, ctx)
        merged_allowlist == MergeAllowlists(allowlists, task_types_to_use)
    IN  IF /\ task_types_to_use = {}
           /\ ctx.query # None /\ ctx.detected_task_types = {} /\ Restrictive(st)
        THEN {}
        ELSE IF task_types_to_use = {}
             THEN {n \in tools : MetaOps \notin cat[n].task_types}
             ELSE IF merged_allowlist = {}
                  THEN IF Restrictive(st) THEN {} ELSE tools
                  ELSE {n \in tools :
                          /\ n \in merged_allowlist
                          /\ \E t \in task_types_to_use : t \in cat[n].task_types}

\* TaskTypeFilter.apply
TaskTypeFilterApply(cat, allowlists, st, tools, ctx) ==
    IF ctx.query # None /\ ctx.detected_task_types = {} /\ Restrictive(st)
    THEN {}
    ELSE LET task_types_to_use == TaskTypesToUse(st, ctx)
             merged_allowlist == MergeAllowlists(allowlists, task_types_to_use)
         IN  IF task_types_to_use = {}
             THEN {n \in tools : MetaOps \notin cat[n].task_types}
             ELSE IF merged_allowlist = {}
                  THEN IF Restrictive(st) THEN {} ELSE tools
                  ELSE {n \in tools :
                          /\ n \in merged_allowlist
                          /\ \E t \in task_types_to_use : t \in cat[n].task_types}

\* The sort key of ResourceFilter.apply: (-priority, name), ascending.
SortsBefore(cat, a, b) ==
    \/ cat[a].priority > cat[b].priority
    \/ cat[a].priority = cat[b].priority /\ NameRank(a) < NameRank(b)

\* sorted(tools.items(), key=lambda x: (-x[1].priority, x[0])) as a sequence of names
RECURSIVE SortedTools(_, _)
SortedTools(cat, tools) ==
    IF tools = {} THEN <<>>
    ELSE LET first == CHOOSE a \in tools : \A b \in tools \ {a} : SortsBefore(cat, a, b)
         IN  <<first>> \o SortedTools(cat, tools \ {first})

\* A truncation that ignores priority and keeps the first names instead.
ResourceFilterByName(cat, max_tools, tools) ==
    IF Cardinality(tools) <= max_tools
    THEN tools
    ELSE {n \in tools : Cardinality({m \in tools : NameRank(m) < NameRank(n)}) < max_tools}

\* ResourceFilter.apply
ResourceFilterApply(cat, max_tools, tools) ==
    IF Cardinality(tools) <= max_tools
    THEN tools
    ELSE LET sorted_tools == SortedTools(cat, tools)
         IN  {sorted_tools[i] : i \in 1..max_tools}

\* A security stage that removes nothing.
SecurityFilterOff(blocklist, tools) == tools

\* SecurityFilter.apply
SecurityFilterApply(blocklist, tools) ==
    {n \in tools : n \notin blocklist}

\* A pipeline that strips blocklisted tools before it truncates.
GetAvailableToolsBlockFirst(cat, cfg, st, ctx) ==
    LET tools1 == TaskTypeFilterApply(cat, cfg.task_type_allowlists, st, DOMAIN cat, ctx)
        tools2 == SecurityFilterApply(cfg.blocklist, tools1)
        tools3 == ResourceFilterApply(cat, cfg.max_tools, tools2)
    IN  [after_task_type |-> tools1, after_resource |-> tools2, tools |-> tools3,
         filters_applied |-> <<>>]

\* A pipeline that, when the blocklist removed a tool kept by the truncation,
\* admits the next-ranked tool of the task-type stage in its place.
GetAvailableToolsRefilling(cat, cfg, st, ctx) ==
    LET tools1 == TaskTypeFilterApply(cat, cfg.task_type_allowlists, st, DOMAIN cat, ctx)
        tools2 == ResourceFilterApply(cat, cfg.max_tools, tools1)
        tools3 == SecurityFilterApply(cfg.blocklist, tools2)
        rest == SortedTools(cat, (tools1 \ tools2) \ cfg.blocklist)
    IN  [after_task_type |-> tools1, after_resource |-> tools2,
         tools |-> IF tools3 # tools2 /\ rest # <<>> THEN tools3 \cup {rest[1]} ELSE tools3,
         filters_applied |-> <<>>]

\* ToolGateController.get_available_tools: the three stages in the order of
\* self.filters, and the names of the stages that changed the set.
GetAvailableTools(cat, cfg, st, ctx) ==
    LET tools0 == DOMAIN cat
        tools1 == TaskTypeFilterApply(cat, cfg.task_type_allowlists, st, tools0, ctx)
        tools2 == ResourceFilterApply(cat, cfg.max_tools, tools1)
        tools3 == SecurityFilterApply(cfg.blocklist, tools2)
    IN  [after_task_type |-> tools1,
         after_resource  |-> tools2,
         tools           |-> tools3,
         filters_applied |->
              (IF tools1 # tools0 THEN <<"TaskTypeFilter">> ELSE <<>>)
           \o (IF tools2 # tools1 THEN <<"ResourceFilter">> ELSE <<>>)
           \o (IF tools3 # tools2 THEN <<"SecurityFilter">> ELSE <<>>)]

-----------------------------------------------------------------------------
(* Catalogs, configurations and settings the model draws from *)

\* Tool: the fields the gating and dispatch code reads.  required_scopes = {}
\* stands for None and for []: both are falsy in
\* "tool.required_scopes or tool.task_types".  request_schema is whether the
\* tool declares one; size is the cached token estimate of the tool.
ToolOf(tt, pr, rs, schema, sz) ==
    [task_types |-> tt, priority |-> pr, required_scopes |-> rs,
     request_schema |-> schema, size |-> sz]

\* The catalog of the pipeline scenarios: A and B tagged x with priorities 1
\* and 5, C tagged y with the default priority.
ScenarioCatalog ==
    [n \in Names |->
        CASE n = "A" -> ToolOf({"x"}, 1, {}, TRUE, 100)
          [] n = "B" -> ToolOf({"x"}, 5, {}, FALSE, 100)
          [] n = "C" -> ToolOf({"y"}, 0, {}, TRUE, 100)]

TaskTypeChoices == [A : {{"x"}, {MetaOps}}, B : {{"x"}, {"y"}}, C : {{"y"}, {"x", MetaOps}}]
PriorityChoices == [A : {1, 5}, B : {1, 5}, C : {0}]

\* Catalogs for the pipeline: task types and priorities vary per tool.
GateCatalogs ==
    {[n \in Names |->
        ToolOf(tt[n], pr[n], {}, ScenarioCatalog[n].request_schema, 100)] :
        tt \in TaskTypeChoices, pr \in PriorityChoices}

\* FilterConfig.max_tools values: 10 is the default of main.py and exceeds
\* every catalog of the model.
DefaultMaxTools == 10
MaxToolsBound == 2
MaxToolsChoices == (0..MaxToolsBound) \cup {DefaultMaxTools}

\* task_type_allowlists of filter-config.json: none (the default), the one of
\* the pipeline scenarios, and ones naming tools for y and meta-ops as well.
AllowlistChoices ==
    {[x |-> {}, y |-> {}, meta |-> {}],
     [x |-> {"A", "B"}, y |-> {}, meta |-> {}],
     [x |-> {"A", "B"}, y |-> {"C"}, meta |-> {"A", "C"}],
     [x |-> Names, y |-> {"C"}, meta |-> {}],
     [x |-> {}, y |-> {}, meta |-> {"A", "C"}]}

Allowlists(c) ==
    [t \in TaskTypes |-> CASE t = "x" -> c.x [] t = "y" -> c.y [] t = MetaOps -> c.meta]

BlocklistChoices == {{}, {"B"}, {"A", "C"}}

FilterConfigs ==
    {[task_type_allowlists |-> Allowlists(c), max_tools |-> m, blocklist |-> b] :
        c \in AllowlistChoices, m \in MaxToolsChoices, b \in BlocklistChoices}

\* main.py lifespan: the FilterConfig used when filter-config.json is absent.
DefaultFilterConfig ==
    [task_type_allowlists |-> [t \in TaskTypes |-> {}],
     max_tools |-> DefaultMaxTools, blocklist |-> {}]

\* app.core.config.Settings: the fields read by gating and dispatch.
SettingsChoices ==
    [STRICT_CONTEXT_LIMIT : BOOLEAN, INTENT_FALLBACK_TO_ALL : BOOLEAN,
     INTENT_PRECEDENCE : {"intent", "explicit"},
     INTENT_CLASSIFICATION_ENABLED : BOOLEAN,
     ENFORCE_OUTPUT_SCHEMA : BOOLEAN]

\* FilterContext values: an explicit task type or none, and either no query
\* (then nothing is detected) or a query with a classification result.
FilterContexts ==
    {c \in [task_type : {None, "x", "y", MetaOps, UnknownTaskType},
            query : {None, "zz"},
            detected_task_types : {NoDetection, {}, {"x"}, {"x", "y"}, {MetaOps}}] :
        c.query = None => c.detected_task_types = NoDetection}

NoGate == [ctx |-> None]
NoResp == [method |-> None]
NoIntent == [query |-> None]
NoRetry == [config |-> None]

-----------------------------------------------------------------------------
(* The pipeline as a state machine: get_available_tools applied to a context *)

InitGate ==
    /\ all_tools \in GateCatalogs
    /\ config \in FilterConfigs
    /\ settings \in {s \in SettingsChoices :
                        s.INTENT_CLASSIFICATION_ENABLED /\ ~s.ENFORCE_OUTPUT_SCHEMA}
    /\ session_tools = [s \in {} |-> {}]
    /\ gate = NoGate
    /\ resp = NoResp
    /\ last_list = [s \in {} |-> {}]
    /\ handled = <<>>
    /\ pending = {}
    /\ written = [s \in {} |-> {}]
    /\ intent = NoIntent
    /\ retry = NoRetry

\* tool_registry.get_available_tools / handle_tools_list call
\* tool_gate_controller.get_available_tools(context)
ApplyGate(ctx) ==
    /\ gate = NoGate
    /\ gate' = [ctx |-> ctx] @@ GetAvailableTools(all_tools, config, settings, ctx)
    /\ UNCHANGED <<all_tools, config, settings, session_tools, resp, last_list,
                 handled, pending, written, intent, retry>>

NextGate == \E ctx \in FilterContexts : ApplyGate(ctx)

SpecGate == InitGate /\ [][NextGate]_vars

-----------------------------------------------------------------------------
(* app/mcp/intent_classifier.py: KeywordIntentClassifier *)

\* A string is the sequence of its characters.  Lower is str.lower() on the
\* characters the model uses.
Lower(c) == CASE c = "A" -> "a" [] c = "B" -> "b" [] c = "C" -> "c" [] OTHER -> c
LowerStr(str) == [i \in 1..Len(str) |-> Lower(str[i])]

\* str.strip(): leading and trailing blanks removed.
RECURSIVE Strip(_)
Strip(str) ==
    IF str = <<>> THEN str
    ELSE IF Head(str) = " " THEN Strip(Tail(str))
    ELSE IF str[Len(str)] = " " THEN Strip(SubSeq(str, 1, Len(str) - 1))
    ELSE str

\* "keyword in query": substring containment
Contains(str, sub) ==
    \E i \in 1..(Len(str) - Len(sub) + 1) : SubSeq(str, i, i + Len(sub) - 1) = sub

\* keyword_mappings (main.py takes them from filter-config.json's
\* intent_keywords): the keywords of each task type, single words ("ab",
\* "c") and a phrase ("b b").
KeywordMappings ==
    [t \in {"x", "y"} |-> IF t = "x" THEN {<<"a", "b">>}
                          ELSE {<<"c">>, <<"b", " ", "b">>}]

\* len(keyword.split()) == 1: the keyword has no blank inside.
IsSingleWord(keyword) == \A i \in DOMAIN keyword : keyword[i] # " "

\* The regular expression class \w on the characters in use, and \b: the
\* position after the first pos characters of str has a word character on
\* exactly one side (the ends of the string count as non-word).
IsWordChar(c) == c \notin {" ", "-"}
WordAt(str, pos) == pos \in DOMAIN str /\ IsWordChar(str[pos])
WordBoundary(str, pos) == WordAt(str, pos) # WordAt(str, pos + 1)

\* re.search(r'\b' + re.escape(keyword) + r'\b', query)
WordBoundarySearch(str, sub) ==
    \E i \in 1..(Len(str) - Len(sub) + 1) :
        /\ SubSeq(str, i, i + Len(sub) - 1) = sub
        /\ WordBoundary(str, i - 1)
        /\ WordBoundary(str, i + Len(sub) - 1)

\* KeywordIntentClassifier._matches_keywords: for each keyword the substring
\* test, then for a single word the word-boundary search.
MatchesKeywords(query, keywords) ==
    \E k \in keywords :
        \/ Contains(query, LowerStr(k))
        \/ IsSingleWord(k) /\ WordBoundarySearch(query, LowerStr(k))

\* KeywordIntentClassifier.classify_intent: the detected task types
ClassifyIntent(query) ==
    IF Strip(query) = <<>> THEN {}
    ELSE LET query_lower == Strip(LowerStr(query))
         IN  {t \in DOMAIN KeywordMappings : MatchesKeywords(query_lower, KeywordMappings[t])}

\* Queries a tools/list may carry, with their characters: one no keyword
\* matches, one matching x, one matching x and y.
QueryNoMatch == "zz"
QueryX == " Ab"
QueryXY == "ab c"
Queries == {QueryNoMatch, QueryX, QueryXY}
Chars(query) ==
    CASE query = QueryNoMatch -> <<"z", "z">>
      [] query = QueryX -> <<" ", "A", "b">>
      [] query = QueryXY -> <<"a", "b", " ", "c">>

-----------------------------------------------------------------------------
(* app/mcp/fastapi_mcp_integration.py: the JSON-RPC handlers *)

\* JSONRPCError codes
METHOD_NOT_FOUND == -32601
INVALID_PARAMS == -32602
INTERNAL_ERROR == -32603

\* ToolGateController.get_context_size: the hard limit on the token estimate
HardLimit == 7600

\* _build_service_map: the tool names that have a service function.  A catalog
\* (tools.yaml) is not checked against it, so a catalog may hold a tool that
\* has none, as "C" here.
ServiceMap == {"A", "B"}

\* "tool.required_scopes if tool.required_scopes else tool.task_types"
EffectiveScopes(tool) ==
    IF tool.required_scopes # {} THEN tool.required_scopes ELSE tool.task_types

\* A scope test without the exemption of "admin" and of the empty scope set.
ScopeAllowsIntersectionOnly(scopes, tool) == EffectiveScopes(tool) \cap scopes # {}

\* The scope test of handle_tools_list and handle_tools_call:
\* "if scopes and 'admin' not in scopes" guards the intersection test.
ScopeAllows(scopes, tool) ==
    (scopes # {} /\ "admin" \notin scopes) => (EffectiveScopes(tool) \cap scopes # {})

\* ToolGateController.get_context_size with the cached per-tool sizes
RECURSIVE SumSizes(_, _)
SumSizes(cat, tools) ==
    IF tools = {} THEN 0
    ELSE LET n == CHOOSE m \in tools : TRUE
         IN  cat[n].size + SumSizes(cat, tools \ {n})

\* dict.get(session_id, {}) on session_tools
BindingOf(bindings, session) ==
    IF session \in DOMAIN bindings THEN bindings[session] ELSE {}

\* A write that stores the set under every session key the map holds.
BindEverySession(bindings, session, tools) ==
    [s \in DOMAIN bindings \cup {session} |-> tools]

\* self.session_tools[session_id] = filtered_tools.copy()
Bind(bindings, session, tools) ==
    [s \in DOMAIN bindings \cup {session} |-> IF s = session THEN tools ELSE bindings[s]]

\* handle_tools_list.  The answer and the session map after the call; raised
\* is TRUE when get_context_size raises ValueError (after the binding was
\* stored), which mcp_endpoint turns into an INTERNAL_ERROR answer; bound is
\* TRUE when the call stored a set in session_tools.
HandleToolsList(cat, cfg, st, bindings, params, session_id, scopes, task_type_header) ==
    LET task_type0 == IF task_type_header # None THEN task_type_header
                      ELSE params.task_type
        query == params.query
        classify == query # None /\ st.INTENT_CLASSIFICATION_ENABLED
        detected == IF classify THEN ClassifyIntent(Chars(query)) ELSE NoDetection
        task_type == IF classify /\ st.INTENT_PRECEDENCE = "intent" THEN None ELSE task_type0
        classification_method ==
            IF classify THEN "intent"
            ELSE IF query # None THEN "none"
            ELSE IF task_type # None THEN "explicit" ELSE "none"
        no_match_strict == classify /\ detected = {} /\ Restrictive(st)
        ctx == [task_type |-> task_type, query |-> query,
                detected_task_types |-> detected]
        gated == GetAvailableTools(cat, cfg, st, ctx)
        scoped == scopes # {} /\ "admin" \notin scopes
        filtered_tools == IF scoped
                          THEN {n \in gated.tools : EffectiveScopes(cat[n]) \cap scopes # {}}
                          ELSE gated.tools
        filters_applied ==
            gated.filters_applied \o
            (IF scoped /\ Cardinality(filtered_tools) < Cardinality(DOMAIN cat)
             THEN <<"ScopeFilter">> ELSE <<>>)
        context_size == SumSizes(cat, filtered_tools)
        warning == detected # NoDetection /\ detected = {} /\ Restrictive(st)
    IN  IF no_match_strict
        THEN [raised |-> FALSE, tools |-> {}, filters_applied |-> <<>>,
              warning |-> TRUE, classification_method |-> "intent",
              bound |-> FALSE, session_tools |-> bindings]
        ELSE [raised |-> context_size > HardLimit /\ st.STRICT_CONTEXT_LIMIT,
              tools |-> filtered_tools, filters_applied |-> filters_applied,
              warning |-> warning, classification_method |-> classification_method,
              bound |-> TRUE, session_tools |-> Bind(bindings, session_id, filtered_tools)]

\* What the service function does once awaited under asyncio.wait_for: it
\* returns a result that fits the response_schema ("ok") or does not
\* ("bad_output"), raises HTTPException or another exception, or has not
\* completed when the timeout expires.  A service function that has not
\* completed is either suspended at an await ("timeout": the event loop runs
\* the timer and cancels it) or inside its synchronous Docker client call
\* ("overrun": the event loop is held until the call returns, and the
\* result is then delivered to the waiting handler).
Outcomes == {"ok", "bad_output", "http_error", "error", "timeout", "overrun"}

\* handle_tools_call.  bindings is read only.  params.arguments is "valid" or
\* "invalid": whether jsonschema.validate accepts the arguments under the
\* tool's request_schema (a tool without one accepts anything).  invoked is the tool whose
\* service function was awaited (None when no collaborator was reached);
\* code is 0 for a result and the JSON-RPC error code otherwise; stage names
\* the check that ended the call.
CallAnswer(code, stage, invoked) == [code |-> code, stage |-> stage, invoked |-> invoked]

\* A conversion of collaborator failures that answers an HTTPException with
\* the invalid-params code.
ServiceAnswerByStatus(st, tool_name, outcome) ==
    CASE outcome = "timeout" -> CallAnswer(INTERNAL_ERROR, "timeout", tool_name)
      [] outcome = "http_error" -> CallAnswer(INVALID_PARAMS, "exception", tool_name)
      [] outcome = "error" -> CallAnswer(INTERNAL_ERROR, "exception", tool_name)
      [] outcome = "bad_output" /\ st.ENFORCE_OUTPUT_SCHEMA ->
             CallAnswer(INTERNAL_ERROR, "output", tool_name)
      [] OTHER -> CallAnswer(0, "done", tool_name)

\* handle_tools_call from the await of the service function on: the except
\* clauses of asyncio.wait_for, the output validation and the result.
ServiceAnswer(st, tool_name, outcome) ==
    CASE outcome = "timeout" -> CallAnswer(INTERNAL_ERROR, "timeout", tool_name)
      [] outcome \in {"http_error", "error"} ->
             CallAnswer(INTERNAL_ERROR, "exception", tool_name)
      [] outcome = "bad_output" /\ st.ENFORCE_OUTPUT_SCHEMA ->
             CallAnswer(INTERNAL_ERROR, "output", tool_name)
      [] OTHER -> CallAnswer(0, "done", tool_name)

\* A handler that validates the arguments first, before session gating and
\* the scope check.
HandleToolsCallSchemaFirst(cat, st, bindings, params, session_id, scopes, outcome) ==
    LET tool_name == params.name
        stored == BindingOf(bindings, session_id)
        session_filtered_tools == IF stored = {} THEN DOMAIN cat ELSE stored
        tool == cat[tool_name]
    IN  IF tool_name = None
        THEN CallAnswer(INVALID_PARAMS, "name", None)
        ELSE IF tool_name \in DOMAIN cat /\ tool.request_schema /\ params.arguments = "invalid"
        THEN CallAnswer(INVALID_PARAMS, "schema", None)
        ELSE IF tool_name \notin session_filtered_tools
        THEN CallAnswer(METHOD_NOT_FOUND, "gating", None)
        ELSE IF ~ScopeAllows(scopes, tool)
        THEN CallAnswer(METHOD_NOT_FOUND, "scope", None)
        ELSE IF tool_name \notin ServiceMap
        THEN CallAnswer(METHOD_NOT_FOUND, "service", None)
        ELSE ServiceAnswer(st, tool_name, outcome)

HandleToolsCall(cat, st, bindings, params, session_id, scopes, outcome) ==
    LET tool_name == params.name
        stored == BindingOf(bindings, session_id)
        session_filtered_tools == IF stored = {} THEN DOMAIN cat ELSE stored
        tool == cat[tool_name]
    IN  IF tool_name = None
        THEN CallAnswer(INVALID_PARAMS, "name", None)
        ELSE IF tool_name \notin session_filtered_tools
        THEN CallAnswer(METHOD_NOT_FOUND, "gating", None)
        ELSE IF ~ScopeAllows(scopes, tool)
        THEN CallAnswer(METHOD_NOT_FOUND, "scope", None)
        ELSE IF tool.request_schema /\ params.arguments = "invalid"
        THEN CallAnswer(INVALID_PARAMS, "schema", None)
        ELSE IF tool_name \notin ServiceMap
        THEN CallAnswer(METHOD_NOT_FOUND, "service", None)
        ELSE ServiceAnswer(st, tool_name, outcome)

-----------------------------------------------------------------------------
(* app/core/auth.py and mcp_endpoint: requests *)

\* settings.TOKEN_SCOPES: the scopes of each configured token.  A token may be
\* configured with the empty list.
Tokens == {"t_admin", "t_x", "t_none"}
TokenScopes(token) ==
    CASE token = "t_admin" -> {"admin"}
      [] token = "t_x" -> {"x"}
      [] token = "t_none" -> {}

\* verify_token_with_scopes: set(token_scopes_mapping[token])
VerifyTokenWithScopes(token) == TokenScopes(token)

\* mcp_endpoint, session key: the X-Session-ID header when present, else
\* "token-" and the first 16 hex digits of the SHA-256 of the presented
\* token (a table stands for the digest: distinct tokens, distinct keys).
TokenDigest(token) ==
    CASE token = "t_admin" -> "token-ad"
      [] token = "t_x" -> "token-0x"
      [] token = "t_none" -> "token-no"
SessionKey(session_header, token) ==
    IF session_header # None THEN session_header ELSE TokenDigest(token)

\* Who sends what: every token sends requests with X-Session-ID "s1" (callers
\* sharing one explicit session); token t_x also sends requests without the
\* header and so owns the derived session.
Callers == {<<"s1", t>> : t \in Tokens} \cup {<<None, "t_x">>}

\* JSONRPCRequest.id: None marks a notification.
Ids == {None, "1"}

\* (X-Task-Type header, params.task_type) of a tools/list request
TaskTypeInputs ==
    {<<None, None>>, <<"x", MetaOps>>, <<None, MetaOps>>, <<None, UnknownTaskType>>}

Request(method, id, caller, task_type_header, params, outcome) ==
    [method |-> method, id |-> id, session_header |-> caller[1], token |-> caller[2],
     task_type_header |-> task_type_header, params |-> params, outcome |-> outcome]

ListRequests ==
    {Request("tools/list", i, c, tt[1], [task_type |-> tt[2], query |-> q], None) :
        i \in Ids, c \in Callers, tt \in TaskTypeInputs, q \in {None} \cup Queries}

\* tools/call: the collaborator's behaviour is drawn with the request; with
\* invalid arguments, and for a name outside the catalog or a missing name,
\* only one behaviour is drawn.
CallRequests ==
    {Request("tools/call", i, c, None, [name |-> n, arguments |-> a[1]], a[2]) :
        i \in Ids, c \in Callers, n \in Names,
        a \in {<<"invalid", "ok">>} \cup {<<"valid", o>> : o \in Outcomes}}
    \cup
    {Request("tools/call", i, c, None, [name |-> n, arguments |-> "valid"], "ok") :
        i \in Ids, c \in Callers, n \in {UnknownName, None}}

\* initialize, prompts/list, prompts/get (a known or an unknown prompt name)
\* and a method the server does not have.
OtherMethods == {"initialize", "prompts/list", "prompts/get", "bogus"}
OtherRequests ==
    {Request(m, i, c, None, [name |-> n], None) :
        m \in OtherMethods, i \in Ids, c \in {<<"s1", "t_admin">>, <<None, "t_x">>},
        n \in {"discover-tools", UnknownName}}

\* The answer of mcp_endpoint to a request.  kind is "empty" (notification:
\* HTTP 200 with no body), "result" or "error"; code is the error code; id is
\* the id of the JSONRPCResponse (every handler passes the request's id).
Answer(req, kind, code, tools, call, meta) ==
    [req |-> req, session |-> SessionKey(req.session_header, req.token),
     scopes |-> VerifyTokenWithScopes(req.token),
     id |-> IF kind = "empty" THEN None ELSE req.id,
     kind |-> kind, code |-> code, tools |-> tools, call |-> call, meta |-> meta]

NoCall == CallAnswer(0, None, None)
NoMeta == [warning |-> FALSE, filters_applied |-> <<>>, classification_method |-> None]

PromptNames == {"discover-tools", "list-task-types", "intent-query-help"}

-----------------------------------------------------------------------------
(* mcp_endpoint as a state machine *)

\* Catalogs for the dispatcher: the scenario catalog with B requiring scope
\* y (A and C have no required_scopes and fall back to their task types),
\* C tagged y or meta-ops, and small tools or tools so large that two of
\* them exceed the hard limit.
DispatchCatalogs ==
    {[n \in Names |->
        CASE n = "A" -> ToolOf({"x"}, 1, {}, TRUE, v[2])
          [] n = "B" -> ToolOf({"x"}, 5, {"y"}, FALSE, v[2])
          [] n = "C" -> ToolOf(v[1], 0, {}, TRUE, v[2])] :
        v \in {<<{"y"}, 100>>, <<{MetaOps}, 100>>, <<{"y"}, 4000>>}}

\* Configurations for the dispatcher: the default of main.py, the two
\* scenario configurations, and one that lists tools under every task type.
DispatchConfigs ==
    {DefaultFilterConfig,
     [task_type_allowlists |-> Allowlists([x |-> {"A", "B"}, y |-> {}, meta |-> {}]),
      max_tools |-> 1, blocklist |-> {}],
     [task_type_allowlists |-> Allowlists([x |-> {"A", "B"}, y |-> {}, meta |-> {}]),
      max_tools |-> DefaultMaxTools, blocklist |-> {"B"}],
     [task_type_allowlists |-> Allowlists([x |-> {"A", "B"}, y |-> {"C"}, meta |-> {"A", "C"}]),
      max_tools |-> 2, blocklist |-> {}]}

\* Settings for the dispatcher: the defaults (permissive, intent precedence,
\* classification on), and each of strict limit, no fallback, explicit
\* precedence and classification off, alone or together.
SettingsOf(strict, fallback, precedence, enabled, enforce) ==
    [STRICT_CONTEXT_LIMIT |-> strict, INTENT_FALLBACK_TO_ALL |-> fallback,
     INTENT_PRECEDENCE |-> precedence, INTENT_CLASSIFICATION_ENABLED |-> enabled,
     ENFORCE_OUTPUT_SCHEMA |-> enforce]
DefaultSettings == SettingsOf(FALSE, TRUE, "intent", TRUE, FALSE)
DispatchSettings ==
    {DefaultSettings,
     SettingsOf(TRUE, TRUE, "intent", TRUE, TRUE),
     SettingsOf(FALSE, FALSE, "intent", TRUE, FALSE),
     SettingsOf(FALSE, TRUE, "explicit", TRUE, FALSE),
     SettingsOf(FALSE, FALSE, "explicit", TRUE, TRUE),
     SettingsOf(TRUE, TRUE, "intent", FALSE, FALSE)}

Init ==
    /\ all_tools \in DispatchCatalogs
    /\ config \in DispatchConfigs
    /\ settings \in DispatchSettings
    /\ session_tools = [s \in {} |-> {}]
    /\ gate = NoGate
    /\ resp = NoResp
    /\ last_list = [s \in {} |-> {}]
    /\ handled = <<>>
    /\ pending = {}
    /\ written = [s \in {} |-> {}]
    /\ intent = NoIntent
    /\ retry = NoRetry

\* A request is taken up when the previous answer has left (Deliver).
Idle == resp = NoResp

\* A notification branch that still reports an unknown method as an error.
NotificationKnownMethodsOnly(req) ==
    /\ req.id = None
    /\ resp' = IF req.method \in {"initialize", "tools/list", "tools/call",
                                  "prompts/list", "prompts/get"}
               THEN Answer(req, "empty", 0, {}, NoCall, NoMeta)
               ELSE Answer(req, "error", METHOD_NOT_FOUND, {}, NoCall, NoMeta)
    /\ UNCHANGED <<all_tools, config, settings, session_tools, gate, last_list,
                 handled, pending, written, intent, retry>>

\* mcp_endpoint, is_notification: nothing is dispatched, the body is empty.
Notification(req) ==
    /\ req.id = None
    /\ resp' = Answer(req, "empty", 0, {}, NoCall, NoMeta)
    /\ UNCHANGED <<all_tools, config, settings, session_tools, gate, last_list,
                 handled, pending, written, intent, retry>>

\* mcp_endpoint, method "tools/list"
ToolsList(req) ==
    /\ req.id # None
    /\ LET scopes == VerifyTokenWithScopes(req.token)
           session_id == SessionKey(req.session_header, req.token)
           r == HandleToolsList(all_tools, config, settings, session_tools,
                                req.params, session_id, scopes, req.task_type_header)
           meta == [warning |-> r.warning, filters_applied |-> r.filters_applied,
                    classification_method |-> r.classification_method]
       IN  /\ session_tools' = r.session_tools
           /\ written' = IF r.bound
                         THEN [s \in DOMAIN written \cup {session_id} |->
                                  IF s = session_id THEN r.tools ELSE written[s]]
                         ELSE written
           /\ IF r.raised
              THEN /\ resp' = Answer(req, "error", INTERNAL_ERROR, {}, NoCall, NoMeta)
                   /\ last_list' = Bind(last_list, session_id,
                                        [kind |-> "error", tools |-> {}, scopes |-> scopes])
              ELSE /\ resp' = Answer(req, "result", 0, r.tools, NoCall, meta)
                   /\ last_list' = Bind(last_list, session_id,
                                        [kind |-> "result", tools |-> r.tools, scopes |-> scopes])
    /\ UNCHANGED <<all_tools, config, settings, gate, handled, pending, intent, retry>>

\* mcp_endpoint, method "tools/call"
ToolsCall(req) ==
    /\ req.id # None
    /\ LET scopes == VerifyTokenWithScopes(req.token)
           session_id == SessionKey(req.session_header, req.token)
           c == HandleToolsCall(all_tools, settings, session_tools,
                                req.params, session_id, scopes, req.outcome)
       IN  resp' = Answer(req, IF c.code = 0 THEN "result" ELSE "error", c.code, {}, c, NoMeta)
    /\ UNCHANGED <<all_tools, config, settings, session_tools, gate, last_list,
                 handled, pending, written, intent, retry>>

\* mcp_endpoint, methods "initialize" and "prompts/list": a fixed result
Describe(req) ==
    /\ req.id # None
    /\ req.method \in {"initialize", "prompts/list"}
    /\ resp' = Answer(req, "result", 0, {}, NoCall, NoMeta)
    /\ UNCHANGED <<all_tools, config, settings, session_tools, gate, last_list,
                 handled, pending, written, intent, retry>>

\* mcp_endpoint, method "prompts/get" (handle_prompts_get)
PromptsGet(req) ==
    /\ req.id # None
    /\ req.method = "prompts/get"
    /\ resp' = IF req.params.name \in PromptNames
               THEN Answer(req, "result", 0, {}, NoCall, NoMeta)
               ELSE Answer(req, "error", INVALID_PARAMS, {}, NoCall, NoMeta)
    /\ UNCHANGED <<all_tools, config, settings, session_tools, gate, last_list,
                 handled, pending, written, intent, retry>>

\* mcp_endpoint, any other method
UnknownMethod(req) ==
    /\ req.id # None
    /\ req.method \notin {"initialize", "tools/list", "tools/call", "prompts/list", "prompts/get"}
    /\ resp' = Answer(req, "error", METHOD_NOT_FOUND, {}, NoCall, NoMeta)
    /\ UNCHANGED <<all_tools, config, settings, session_tools, gate, last_list,
                 handled, pending, written, intent, retry>>

\* The answer is returned to the client.
Deliver ==
    /\ ~Idle
    /\ resp' = NoResp
    /\ UNCHANGED <<all_tools, config, settings, session_tools, gate, last_list,
                 handled, pending, written, intent, retry>>

\* Requests sent without an id: a tools/list with and without a task type, a
\* tools/call of a catalog tool, of an unknown one and without a name, and
\* the other methods.
NotificationRequests ==
    {r \in ListRequests : r.params.query = None /\ r.task_type_header = None
                          /\ r.params.task_type \in {None, MetaOps}}
    \cup {r \in CallRequests : r.params.name \in {"A", UnknownName, None}
                               /\ r.params.arguments = "valid" /\ r.outcome = "ok"}
    \cup {r \in OtherRequests : r.params.name = "discover-tools"}

Next ==
    \/ Idle /\ \E req \in NotificationRequests : Notification(req)
    \/ Idle /\ \E req \in ListRequests : ToolsList(req)
    \/ Idle /\ \E req \in CallRequests : ToolsCall(req)
    \/ Idle /\ \E req \in OtherRequests : Describe(req)
    \/ Idle /\ \E req \in OtherRequests : PromptsGet(req)
    \/ Idle /\ \E req \in OtherRequests : UnknownMethod(req)
    \/ Deliver

Spec == Init /\ [][Next]_vars

-----------------------------------------------------------------------------
(* Properties of the pipeline *)

\* The tools of `tools` that come before n in the order of ResourceFilter:
\* higher priority first, and among equal priorities the smaller name first.
Ahead(cat, tools, n) ==
    {m \in tools : \/ cat[m].priority > cat[n].priority
                   \/ /\ cat[m].priority = cat[n].priority
                      /\ NameRank(m) < NameRank(n)}

\* C3: the output of get_available_tools contains no blocklisted tool.
C3_NoBlocklistedToolReturned ==
    gate # NoGate => gate.tools \cap config.blocklist = {}

\* C3 happens: a blocklisted tool survived the first two stages and the output
\* is still non-empty.
C3_Witness ==
    /\ gate # NoGate
    /\ gate.after_resource \cap config.blocklist # {}
    /\ gate.tools # {}

ScenarioAllowlists == [t \in TaskTypes |-> IF t = "x" THEN {"A", "B"} ELSE {}]
ScenarioContext == [task_type |-> "x", query |-> None, detected_task_types |-> NoDetection]

\* C7: the output of get_available_tools is the task-type stage's output, cut
\* to the first max_tools in (priority descending, name ascending) order when
\* it is larger than max_tools, and only then stripped of blocklisted tools;
\* in the scenario catalog with allowlist x: [A, B], task type x gives [B]
\* under max_tools 1 with no blocklist and [A] under max_tools 10 with
\* blocklist [B].
C7_PipelineOrder ==
    gate # NoGate =>
        LET staged == gate.after_task_type
            kept == {n \in staged :
                        Cardinality(staged) > config.max_tools
                            => Cardinality(Ahead(all_tools, staged, n)) < config.max_tools}
            scenario == /\ all_tools = ScenarioCatalog
                        /\ config.task_type_allowlists = ScenarioAllowlists
                        /\ gate.ctx = ScenarioContext
        IN /\ staged \subseteq DOMAIN all_tools
           /\ gate.tools = {n \in kept : n \notin config.blocklist}
           /\ (scenario /\ config.max_tools = 1 /\ config.blocklist = {})
                => gate.tools = {"B"}
           /\ (scenario /\ config.max_tools = DefaultMaxTools /\ config.blocklist = {"B"})
                => gate.tools = {"A"}

\* C7 happens: the task-type stage passed more than max_tools tools, one of
\* the tools kept by the truncation is blocklisted, and so fewer than
\* max_tools tools are returned.
C7_Witness ==
    /\ gate # NoGate
    /\ Cardinality(gate.after_task_type) > config.max_tools
    /\ gate.after_resource \cap config.blocklist # {}
    /\ gate.tools # {}
    /\ Cardinality(gate.tools) < config.max_tools

\* C8: ResourceFilter.apply returns exactly max_tools tools, the first in
\* (priority descending, name ascending) order, when given more than
\* max_tools; returns its input unchanged otherwise; and applied to its own
\* output returns that output.
C8_ResourceFilterTruncates ==
    gate # NoGate =>
        LET input == gate.after_task_type
            output == gate.after_resource
        IN /\ Cardinality(input) > config.max_tools
                => /\ Cardinality(output) = config.max_tools
                   /\ output = {n \in input :
                                   Cardinality(Ahead(all_tools, input, n)) < config.max_tools}
           /\ Cardinality(input) <= config.max_tools => output = input
           /\ ResourceFilterApply(all_tools, config.max_tools, output) = output

\* C8 happens: the input is larger than max_tools and two of its tools have
\* the same priority, one kept and one dropped.
C8_Witness ==
    /\ gate # NoGate
    /\ Cardinality(gate.after_task_type) > config.max_tools
    /\ \E a \in gate.after_resource : \E b \in gate.after_task_type \ gate.after_resource :
          all_tools[a].priority = all_tools[b].priority

-----------------------------------------------------------------------------
(* Properties of the dispatcher *)

\* The last request was a tools/list answered with a result.
ListResult ==
    resp # NoResp /\ resp.req.method = "tools/list" /\ resp.kind = "result"

\* The last request was a tools/call with an id (it was dispatched).
CallAnswered ==
    resp # NoResp /\ resp.req.method = "tools/call" /\ resp.kind # "empty"

\* The session of the last request has been sent a tools/list result, and
\* that result is its most recent tools/list answer.
ShownTools == last_list[resp.session].tools
HasListResult ==
    resp.session \in DOMAIN last_list /\ last_list[resp.session].kind = "result"

\* C1: in a session whose most recent tools/list answer is a result, a
\* tools/call naming a tool outside that result's tools array is answered
\* with METHOD_NOT_FOUND and reaches no collaborator.
C1_CallOutsideShownSetRejected ==
    (CallAnswered /\ HasListResult /\ resp.req.params.name # None
       /\ resp.req.params.name \notin ShownTools)
    => (resp.code = METHOD_NOT_FOUND /\ resp.call.invoked = None)

\* C2: after a tools/list answered with a result, the binding of the session
\* is exactly the set of tools of that result.
C2_BindingEqualsResult ==
    ListResult
    => (resp.session \in DOMAIN session_tools /\ session_tools[resp.session] = resp.tools)

\* The caller of the last request holds scopes without "admin".
NonAdminCaller == "admin" \notin resp.scopes

\* C4: every tool of a tools/list result sent to a caller without "admin"
\* (a caller with no scope at all included) has an effective authorization
\* set that shares a scope with the caller's.
C4_ListedToolsWithinScopes ==
    (ListResult /\ NonAdminCaller)
    => \A n \in resp.tools : EffectiveScopes(all_tools[n]) \cap resp.scopes # {}

\* C5: a tools/call by a caller without "admin" never reaches the collaborator
\* of a tool whose effective authorization set shares no scope with the
\* caller's.
C5_NoInvocationOutsideScopes ==
    (CallAnswered /\ NonAdminCaller /\ resp.call.invoked # None)
    => EffectiveScopes(all_tools[resp.call.invoked]) \cap resp.scopes # {}

\* The last request is a tools/call, with arguments its tool's schema accepts,
\* for a tool of the session's most recent tools/list answer, a result sent
\* to a caller with the same scopes.
CallOfShownTool ==
    /\ CallAnswered
    /\ HasListResult
    /\ resp.req.params.name \in ShownTools
    /\ resp.req.params.arguments = "valid"
    /\ last_list[resp.session].scopes = resp.scopes

\* C6 as stated: a call of a shown tool passes gating and the scope check and
\* reaches the tool's collaborator.
C6_ShownToolIsInvoked ==
    CallOfShownTool => resp.call.invoked = resp.req.params.name

\* C6, amended: a call of a shown tool that has a service function passes
\* gating and the scope check and reaches the tool's collaborator; a call of
\* a shown tool that has none passes both checks and is answered with
\* METHOD_NOT_FOUND, no collaborator reached.
C6_ShownToolWithServiceIsInvoked ==
    CallOfShownTool =>
        IF resp.req.params.name \in ServiceMap
        THEN resp.call.invoked = resp.req.params.name
        ELSE /\ resp.call.stage = "service"
             /\ resp.code = METHOD_NOT_FOUND
             /\ resp.call.invoked = None

\* C6 happens: a caller without "admin" called a tool it was shown, and the
\* collaborator was awaited.
C6_Witness ==
    /\ CallOfShownTool
    /\ NonAdminCaller
    /\ resp.scopes # {}
    /\ resp.call.invoked = resp.req.params.name

\* The task type a tools/list request carries: the X-Task-Type header, else
\* the task_type parameter.
RequestedTaskType ==
    IF resp.req.task_type_header # None THEN resp.req.task_type_header
    ELSE resp.req.params.task_type

\* C9: a tools/list result for a request with no task type and no query
\* contains no tool tagged meta-ops.
C9_NoMetaOpsByDefault ==
    (ListResult /\ RequestedTaskType = None /\ resp.req.params.query = None)
    => \A n \in resp.tools : MetaOps \notin all_tools[n].task_types

\* C9 happens: the catalog has a tool tagged meta-ops, the request carries no
\* task type and no query, and the result lists other tools.
C9_Witness ==
    /\ ListResult
    /\ RequestedTaskType = None
    /\ resp.req.params.query = None
    /\ \E n \in Names : MetaOps \in all_tools[n].task_types
    /\ resp.tools # {}

\* The last request is a tools/list by an "admin" caller with task type
\* meta-ops and no query, answered with a result.
MetaOpsListResult ==
    /\ ListResult
    /\ "admin" \in resp.scopes
    /\ RequestedTaskType = MetaOps
    /\ resp.req.params.query = None

MetaOpsTools == {n \in Names : MetaOps \in all_tools[n].task_types}

\* C10 as stated: such a result contains every meta-ops tool that is not
\* blocklisted, whenever their number does not exceed max_tools.
C10_MetaOpsSurfaced ==
    LET wanted == MetaOpsTools \ config.blocklist
    IN  (MetaOpsListResult /\ Cardinality(wanted) <= config.max_tools)
        => wanted \subseteq resp.tools

\* C10, amended: such a result contains every meta-ops tool that the meta-ops
\* allowlist names and that is not blocklisted, whenever the number of
\* meta-ops tools the allowlist names does not exceed max_tools.  With an
\* empty meta-ops allowlist the result is empty when STRICT_CONTEXT_LIMIT is
\* set or INTENT_FALLBACK_TO_ALL is not, and otherwise the whole catalog cut
\* to max_tools and stripped of the blocklist.
C10_AllowlistedMetaOpsSurfaced ==
    LET allowlist == AllowlistOf(config.task_type_allowlists, MetaOps)
        named == MetaOpsTools \cap allowlist
        cut == {n \in Names :
                   Cardinality(Names) > config.max_tools
                       => Cardinality(Ahead(all_tools, Names, n)) < config.max_tools}
    IN  MetaOpsListResult =>
          /\ Cardinality(named) <= config.max_tools
                => (named \ config.blocklist) \subseteq resp.tools
          /\ (allowlist = {} /\ Restrictive(settings)) => resp.tools = {}
          /\ (allowlist = {} /\ ~Restrictive(settings))
                => resp.tools = cut \ config.blocklist

\* C10 happens: a meta-ops tool named by the allowlist is in the result.
C10_Witness ==
    /\ MetaOpsListResult
    /\ \E n \in MetaOpsTools \cap AllowlistOf(config.task_type_allowlists, MetaOps) :
          n \in resp.tools

\* The last request was a tools/list with an id (it was dispatched).
ListAnswered ==
    resp # NoResp /\ resp.req.method = "tools/list" /\ resp.kind # "empty"

\* The last request was a dispatched tools/list whose query matches no
\* keyword, with classification enabled and a strict or fallback-disabled
\* policy.
StrictNoMatchList ==
    /\ ListAnswered
    /\ resp.req.params.query = QueryNoMatch
    /\ settings.INTENT_CLASSIFICATION_ENABLED
    /\ (settings.STRICT_CONTEXT_LIMIT \/ ~settings.INTENT_FALLBACK_TO_ALL)

\* C11: a tools/list whose query is classified to no task type, under a
\* strict or fallback-disabled policy, is answered with a result whose tools
\* array is empty and whose metadata carries a warning, never with an error.
C11_StrictNoMatchIsEmptyResult ==
    StrictNoMatchList
    => (resp.kind = "result" /\ resp.code = 0 /\ resp.tools = {} /\ resp.meta.warning)

\* C11 happens: under the strict limit with tools so large that a plain
\* tools/list is refused, the no-match query is answered with a result.
C11_Witness ==
    /\ StrictNoMatchList
    /\ settings.STRICT_CONTEXT_LIMIT
    /\ SumSizes(all_tools, Names) > HardLimit
    /\ resp.kind = "result"

\* get_available_tools was applied to a context that carries both an explicit
\* task type and a non-empty list of detected task types.
BothGiven ==
    /\ gate # NoGate
    /\ gate.ctx.task_type # None
    /\ gate.ctx.detected_task_types \notin {NoDetection, {}}

\* The task types INTENT_PRECEDENCE chooses when both are given, and the
\* names their allowlists contain.
ChosenTaskTypes ==
    IF settings.INTENT_PRECEDENCE = "intent" THEN gate.ctx.detected_task_types
    ELSE {gate.ctx.task_type}
ChosenAllowlist ==
    {n \in Names : \E t \in ChosenTaskTypes \cap DOMAIN config.task_type_allowlists :
                      n \in config.task_type_allowlists[t]}
ChosenTools ==
    {n \in Names : n \in ChosenAllowlist /\ all_tools[n].task_types \cap ChosenTaskTypes # {}}

\* C12 as stated: with both given, every tool TaskTypeFilter keeps is named in
\* the merged allowlist of the chosen task types (the detected ones under
\* "intent", the explicit one under "explicit") and declares one of them.
C12_KeptToolsAreChosen ==
    BothGiven => gate.after_task_type \subseteq ChosenTools

\* C12, amended: with both given and a non-empty merged allowlist of the
\* chosen task types, TaskTypeFilter keeps exactly the tools named in it that
\* declare a chosen task type; with an empty one it keeps nothing under a
\* strict or fallback-disabled policy and every tool otherwise.
C12_KeptToolsAreChosenOrFallback ==
    BothGiven =>
        gate.after_task_type =
            IF ChosenAllowlist # {} THEN ChosenTools
            ELSE IF settings.STRICT_CONTEXT_LIMIT \/ ~settings.INTENT_FALLBACK_TO_ALL
                 THEN {} ELSE Names

\* C12 happens: under "explicit" precedence the explicit task type and the
\* detected ones differ, and the tools kept are those of the explicit one,
\* which are not those the detected ones would give.
C12_Witness ==
    /\ BothGiven
    /\ settings.INTENT_PRECEDENCE = "explicit"
    /\ gate.ctx.task_type \notin gate.ctx.detected_task_types
    /\ gate.after_task_type # {}
    /\ gate.after_task_type = ChosenTools
    /\ \E n \in gate.after_task_type :
          all_tools[n].task_types \cap gate.ctx.detected_task_types = {}

\* C13: a step that changes session_tools is the handling of a tools/list,
\* and it changes the entry of that request's session only: every other
\* session has an entry after the step exactly if it had one before, with the
\* same set.  Steps handling tools/call (whatever the collaborator's outcome),
\* initialize, prompts/list and prompts/get leave session_tools unchanged.
C13_OnlyToolsListWritesOwnEntry ==
    [][session_tools' # session_tools =>
          /\ resp' # NoResp
          /\ resp'.req.method = "tools/list"
          /\ \A s \in (DOMAIN session_tools \cup DOMAIN session_tools') \ {resp'.session} :
                /\ s \in DOMAIN session_tools
                /\ s \in DOMAIN session_tools'
                /\ session_tools'[s] = session_tools[s]]_vars

\* C13 happens: a tools/list has just rebound its session to a non-empty set
\* while another session holds a different binding.
C13_Witness ==
    /\ ListAnswered
    /\ resp.kind = "result"
    /\ resp.tools # {}
    /\ resp.session \in DOMAIN session_tools
    /\ session_tools[resp.session] = resp.tools
    /\ \E s \in DOMAIN session_tools \ {resp.session} :
          session_tools[s] \notin {{}, resp.tools}

\* The checks of the last tools/call, read off the request and the state it
\* was handled in (a tools/call leaves session_tools as it found it).
CallName == resp.req.params.name
CallPassesName == CallName # None
CallPassesGating ==
    /\ CallPassesName
    /\ LET stored == BindingOf(session_tools, resp.session)
       IN  IF stored = {} THEN CallName \in DOMAIN all_tools ELSE CallName \in stored
CallPassesScope ==
    /\ CallPassesGating
    /\ ScopeAllows(resp.scopes, all_tools[CallName])
CallPassesSchema ==
    /\ CallPassesScope
    /\ all_tools[CallName].request_schema => resp.req.params.arguments = "valid"

\* C16: a tools/call that passes session gating and the scope check for a
\* tool with a request_schema, with arguments the schema rejects, is answered
\* with error -32602 and no collaborator is invoked; a collaborator is invoked
\* only when the name, session gating, scope and request-schema checks all
\* passed, and the checks are made in that order: a missing name is answered
\* -32602, a failed gating or scope check -32601 even with invalid arguments.
C16_InvalidArgumentsRejectedBeforeInvocation ==
    CallAnswered =>
        /\ (CallPassesScope /\ ~CallPassesSchema)
              => (resp.kind = "error" /\ resp.code = INVALID_PARAMS /\ resp.call.invoked = None)
        /\ resp.call.invoked # None => (CallPassesSchema /\ resp.call.invoked = CallName)
        /\ ~CallPassesName => (resp.code = INVALID_PARAMS /\ resp.call.stage = "name")
        /\ (CallPassesName /\ ~CallPassesGating)
              => (resp.code = METHOD_NOT_FOUND /\ resp.call.stage = "gating")
        /\ (CallPassesGating /\ ~CallPassesScope)
              => (resp.code = METHOD_NOT_FOUND /\ resp.call.stage = "scope")

\* C16 happens: a bound tool with a request_schema and a service function is
\* called within the caller's scopes with arguments the schema rejects.
C16_Witness ==
    /\ CallAnswered
    /\ BindingOf(session_tools, resp.session) # {}
    /\ CallPassesScope
    /\ ~CallPassesSchema
    /\ CallName \in ServiceMap
    /\ "admin" \notin resp.scopes
    /\ resp.scopes # {}
    /\ resp.code = INVALID_PARAMS

\* The last tools/call reached its collaborator, and the collaborator raised.
CollaboratorRaised ==
    /\ CallAnswered
    /\ resp.call.invoked # None
    /\ resp.req.outcome \in {"http_error", "error"}

\* C17: when the collaborator a tools/call invoked raises an HTTPException or
\* another exception, the answer is a JSON-RPC error with code -32603 and the
\* id of the request, and it is no result.
C17_CollaboratorExceptionIsInternalError ==
    CollaboratorRaised =>
        /\ resp.kind = "error"
        /\ resp.code = INTERNAL_ERROR
        /\ resp.id = resp.req.id
        /\ resp.call.stage = "exception"

\* C17 happens: a non-admin caller's bound tool was invoked and raised an
\* HTTPException.
C17_Witness ==
    /\ CollaboratorRaised
    /\ resp.req.outcome = "http_error"
    /\ "admin" \notin resp.scopes
    /\ resp.call.invoked \in BindingOf(session_tools, resp.session)
    /\ resp.code = INTERNAL_ERROR

\* The last tools/call reached its collaborator, and the collaborator had
\* not completed when the timeout of its operation class expired.
CollaboratorLate ==
    /\ CallAnswered
    /\ resp.call.invoked # None
    /\ resp.req.outcome \in {"timeout", "overrun"}

\* C18: when the collaborator has not completed at the expiry of the timeout,
\* whether it is suspended or inside a synchronous Docker client call, the
\* tools/call is answered with error -32603 reporting the timeout.
C18_LateCollaboratorIsTimeoutError ==
    CollaboratorLate =>
        /\ resp.kind = "error"
        /\ resp.code = INTERNAL_ERROR
        /\ resp.call.stage = "timeout"

\* The last request was a notification: its id is null or absent.
NotificationAnswered == resp # NoResp /\ resp.req.id = None

\* C19: a request without an id is answered with the empty body, whatever
\* its method (supported or not) and its params: the answer carries no
\* result, no error and no id.
C19_NotificationAnsweredEmpty ==
    NotificationAnswered =>
        /\ resp.kind = "empty"
        /\ resp.code = 0
        /\ resp.id = None
        /\ resp.tools = {}
        /\ resp.call = NoCall

\* C19 happens: a notification that would be an error if it had an id (an
\* unknown method, or a tools/call without a name) got the empty body.
C19_Witness ==
    /\ NotificationAnswered
    /\ \/ resp.req.method = "bogus"
       \/ resp.req.method = "tools/call" /\ resp.req.params.name = None
    /\ resp.kind = "empty"

\* C20: after a tools/list notification the session map is what
\* handle_tools_list leaves for the same request, and after a tools/call
\* notification the collaborator that handle_tools_call invokes for the same
\* request was invoked.
C20_NotificationPerformsAction ==
    NotificationAnswered =>
        /\ resp.req.method = "tools/list" =>
              session_tools =
                  HandleToolsList(all_tools, config, settings, session_tools,
                                  resp.req.params, resp.session, resp.scopes,
                                  resp.req.task_type_header).session_tools
        /\ resp.req.method = "tools/call" =>
              resp.call.invoked =
                  HandleToolsCall(all_tools, settings, session_tools, resp.req.params,
                                  resp.session, resp.scopes, resp.req.outcome).invoked

-----------------------------------------------------------------------------
(* Credentials and session keys: HTTPBearerOrQuery and mcp_endpoint *)

\* An Authorization header value is the sequence of its comma-separated
\* segments, a segment the sequence of its blank-separated words:
\* "Bearer t_x, Basic abc" is <<<<"Bearer", "t_x">>, <<"Basic", "abc">>>>.
\* A bare string t is <<<<t>>>>, an absent header or value is <<>>.
Bare(t) == <<<<t>>>>
Absent == <<>>
AuthorizationChoices ==
    {Absent} \cup
    {<<<<sch, t>>>> : sch \in {"Bearer", "bearer"}, t \in {"t_x", "t_admin"}} \cup
    {<<<<"Basic", "abc">>>>,
     <<<<"Bearer", "t_x">>, <<"Basic", "abc">>>>,
     <<<<"Basic", "abc">>, <<"Bearer", "t_x">>>>}

\* The headers of a request that the two functions read.
HeaderChoices ==
    [x_session_id : {None, "s1"},
     authorization : AuthorizationChoices,
     x_access_token : {None, "t_x", "t_admin"}]

\* str.lower() on the scheme names in use
LowerScheme(w) == IF w = "Bearer" THEN "bearer" ELSE IF w = "Basic" THEN "basic" ELSE w

\* HTTPBearerOrQuery.__call__: the credentials of the first segment of the
\* Authorization header whose scheme is "bearer" in any case; failing that
\* the X-Access-Token header; failing that no credential (403).
NoCredential == "none"
BearerSegments(authorization) ==
    IF authorization = Absent THEN {}
    ELSE {i \in DOMAIN authorization :
             /\ Len(authorization[i]) = 2
             /\ LowerScheme(authorization[i][1]) = "bearer"}
Credential(headers) ==
    LET found == BearerSegments(headers.authorization)
    IN  IF found # {}
        THEN headers.authorization[CHOOSE i \in found : \A j \in found : i <= j][2]
        ELSE IF headers.x_access_token # None THEN headers.x_access_token
        ELSE NoCredential

\* verify_token_with_scopes accepts the credential when it is a configured
\* token.
Authenticated(headers) == Credential(headers) \in Tokens

\* mcp_endpoint, token_source: of the Authorization header, the second word
\* when the header has exactly two words and the whole header otherwise;
\* without an Authorization header, the X-Access-Token header.
WordCount(authorization) ==
    IF Len(authorization) = 1 THEN Len(authorization[1])
    ELSE Len(authorization[1]) + Len(authorization[2])
TokenSource(headers) ==
    IF headers.authorization # Absent
    THEN IF WordCount(headers.authorization) = 2 /\ Len(headers.authorization) = 1
         THEN Bare(headers.authorization[1][2])
         ELSE headers.authorization
    ELSE IF headers.x_access_token # None THEN Bare(headers.x_access_token)
    ELSE Absent

\* mcp_endpoint, session_id: the X-Session-ID header, else "token-" and the
\* digest of token_source (the digest is one-to-one here: its value stands
\* for its argument), else a fresh uuid4.
SessionIdOf(headers) ==
    IF headers.x_session_id # None THEN [header |-> headers.x_session_id]
    ELSE IF TokenSource(headers) # Absent THEN [digest_of |-> TokenSource(headers)]
    ELSE [uuid |-> TRUE]

\* The number of accepted requests that are followed.
MaxHandled == 2

InitSession ==
    /\ all_tools = ScenarioCatalog
    /\ config = DefaultFilterConfig
    /\ settings = DefaultSettings
    /\ session_tools = [s \in {} |-> {}]
    /\ gate = NoGate
    /\ resp = NoResp
    /\ last_list = [s \in {} |-> {}]
    /\ handled = <<>>
    /\ pending = {}
    /\ written = [s \in {} |-> {}]
    /\ intent = NoIntent
    /\ retry = NoRetry

\* mcp_endpoint up to the dispatch, for a request that passes the
\* verify_token_with_scopes dependency.
AcceptRequest(headers) ==
    /\ Len(handled) < MaxHandled
    /\ Authenticated(headers)
    /\ handled' = Append(handled, [headers |-> headers,
                                   credential |-> Credential(headers),
                                   session_id |-> SessionIdOf(headers)])
    /\ UNCHANGED <<all_tools, config, settings, session_tools, gate, resp, last_list,
                   pending, written, intent, retry>>

NextSession == \E headers \in HeaderChoices : AcceptRequest(headers)

SpecSession == InitSession /\ [][NextSession]_vars

\* C15: an accepted request with an X-Session-ID header has that value as its
\* session key; two accepted requests without the header that were
\* authenticated with the same credential, as Authorization: Bearer or as
\* X-Access-Token and whatever their other headers, have the same session
\* key; no accepted request gets a fresh random key.
C15_SessionKeyFollowsCredential ==
    \A i, j \in DOMAIN handled :
        /\ handled[i].headers.x_session_id # None
              => handled[i].session_id = [header |-> handled[i].headers.x_session_id]
        /\ ( /\ handled[i].headers.x_session_id = None
             /\ handled[j].headers.x_session_id = None
             /\ handled[i].credential = handled[j].credential )
              => handled[i].session_id = handled[j].session_id
        /\ handled[i].session_id # [uuid |-> TRUE]

-----------------------------------------------------------------------------
(* Requests handled concurrently on the event loop *)

\* handle_tools_list awaits nothing: a tools/list runs from its first
\* statement to its answer as one step (ToolsList).  handle_tools_call
\* awaits once, at asyncio.wait_for: it runs from its first statement to
\* that await as one step (CallBegin), and from the completion of the wait
\* to its answer as another (CallEnd); other requests run in between.

\* handle_tools_call: the set the call authorizes against.
SessionFilteredTools(cat, bindings, session_id) ==
    IF BindingOf(bindings, session_id) = {} THEN DOMAIN cat
    ELSE BindingOf(bindings, session_id)

\* The number of tools/call requests suspended at a time.
MaxPending == 2

\* The requests of the concurrent clients: they share the session "s1".
ConcurrentCallers == {<<"s1", "t_admin">>, <<"s1", "t_x">>}
ConcurrentListRequests ==
    {r \in ListRequests : /\ r.id # None
                          /\ <<r.session_header, r.token>> \in ConcurrentCallers
                          /\ r.task_type_header = None
                          /\ r.params.task_type \in {None, MetaOps}
                          /\ r.params.query = None}
ConcurrentCallRequests ==
    {r \in CallRequests : /\ r.id # None
                          /\ <<r.session_header, r.token>> \in ConcurrentCallers
                          /\ r.params.name \in {"A", "B", UnknownName}
                          /\ r.params.arguments = "valid"
                          /\ r.outcome \in {"ok", "timeout"}}

InitConcurrent ==
    /\ all_tools \in {cat \in DispatchCatalogs : SumSizes(cat, Names) <= HardLimit}
    /\ config \in {cfg \in DispatchConfigs : cfg.blocklist = {}}
    /\ settings = DefaultSettings
    /\ session_tools = [s \in {} |-> {}]
    /\ gate = NoGate
    /\ resp = NoResp
    /\ last_list = [s \in {} |-> {}]
    /\ handled = <<>>
    /\ pending = {}
    /\ written = [s \in {} |-> {}]
    /\ intent = NoIntent
    /\ retry = NoRetry

\* handle_tools_call up to the await of the service function: the call is
\* answered at once when a check fails or no service function exists, and is
\* suspended otherwise.
CallBegin(req) ==
    /\ req.id # None
    /\ LET scopes == VerifyTokenWithScopes(req.token)
           session_id == SessionKey(req.session_header, req.token)
           c == HandleToolsCall(all_tools, settings, session_tools,
                                req.params, session_id, scopes, req.outcome)
       IN  IF c.invoked = None
           THEN /\ resp' = Answer(req, "error", c.code, {}, c, NoMeta)
                /\ pending' = pending
           ELSE /\ Cardinality(pending) < MaxPending
                /\ pending' = pending \cup
                       {[req |-> req, session |-> session_id,
                         bound |-> session_id \in DOMAIN session_tools,
                         binding |-> BindingOf(session_tools, session_id),
                         against |-> SessionFilteredTools(all_tools, session_tools, session_id),
                         call |-> c]}
                /\ resp' = resp
    /\ UNCHANGED <<all_tools, config, settings, session_tools, gate, last_list,
                   handled, written, intent, retry>>

\* handle_tools_call from the completion of asyncio.wait_for to the answer
CallEnd(p) ==
    /\ p \in pending
    /\ pending' = pending \ {p}
    /\ resp' = Answer(p.req, IF p.call.code = 0 THEN "result" ELSE "error",
                      p.call.code, {}, p.call, NoMeta)
    /\ UNCHANGED <<all_tools, config, settings, session_tools, gate, last_list,
                   handled, written, intent, retry>>

NextConcurrent ==
    \/ \E req \in ConcurrentListRequests : ToolsList(req)
    \/ \E req \in ConcurrentCallRequests : CallBegin(req)
    \/ \E p \in pending : CallEnd(p)

SpecConcurrent == InitConcurrent /\ [][NextConcurrent]_vars

\* C14: at all times the binding of a session is exactly the set the last
\* write of a tools/list stored for it, and a suspended tools/call that
\* started when its session had a written binding authorized against that
\* set or against the one written last since.
C14_LastWriteWinsAndCallsSeeIt ==
    /\ DOMAIN session_tools = DOMAIN written
    /\ \A s \in DOMAIN session_tools : session_tools[s] = written[s]
    /\ \A p \in pending :
          p.bound => (p.against = p.binding \/ p.against = written[p.session])

-----------------------------------------------------------------------------
(* classify_intent applied to a query *)

\* The queries classified: every string of at most MaxQueryLen characters
\* over the alphabet.
MaxQueryLen == 4
QueryAlphabet == {"a", "b", "c", "A", " "}
QueryStrings == UNION {[1..n -> QueryAlphabet] : n \in 0..MaxQueryLen}

InitClassify ==
    /\ all_tools = ScenarioCatalog
    /\ config = DefaultFilterConfig
    /\ settings = DefaultSettings
    /\ session_tools = [s \in {} |-> {}]
    /\ gate = NoGate
    /\ resp = NoResp
    /\ last_list = [s \in {} |-> {}]
    /\ handled = <<>>
    /\ pending = {}
    /\ written = [s \in {} |-> {}]
    /\ intent = NoIntent
    /\ retry = NoRetry

\* self.intent_classifier.classify_intent(query)
Classify(query) ==
    /\ intent = NoIntent
    /\ intent' = [query |-> query, detected |-> ClassifyIntent(query)]
    /\ UNCHANGED <<all_tools, config, settings, session_tools, gate, resp, last_list,
                   handled, pending, written, retry>>

NextClassify == \E query \in QueryStrings : Classify(query)

SpecClassify == InitClassify /\ [][NextClassify]_vars

\* The lower-cased, trimmed query of the last classification.
NormalizedQuery == Strip(LowerStr(intent.query))

\* C21: a task type is reported only if one of its keywords occurs in the
\* lower-cased, trimmed query as a whole word when it is a single word (as a
\* phrase otherwise): an occurrence inside a longer token does not count.
C21_SingleWordKeywordsMatchWholeWords ==
    intent # NoIntent =>
        \A t \in intent.detected :
            \E k \in KeywordMappings[t] :
                IF IsSingleWord(k)
                THEN WordBoundarySearch(NormalizedQuery, LowerStr(k))
                ELSE Contains(NormalizedQuery, LowerStr(k))

-----------------------------------------------------------------------------
(* app/utils/retry.py: retry_with_backoff *)

\* Delays are in milliseconds, the jitter factor 0.75 + random.random() * 0.5
\* in percent: random.random() is in [0, 1), so the factor is at least 75
\* and less than 125.
JitterPercents == {75, 100, 124}

\* RetryConfig: max_attempts >= 1, the delays and the backoff factor.
MaxAttempts == 3
RetryConfigs ==
    [max_attempts : 1..MaxAttempts, base_delay : {0, 100, 200},
     max_delay : {0, 100, 300}, backoff_factor : {2}, jitter : BOOLEAN]

\* backoff_factor ** n
RECURSIVE Power(_, _)
Power(b, n) == IF n = 0 THEN 1 ELSE b * Power(b, n - 1)

Min(a, b) == IF a <= b THEN a ELSE b

\* The delay slept before attempt number `attempt` (0-based, > 0):
\* min(base_delay * backoff_factor ** (attempt - 1), max_delay), then
\* multiplied by the jitter factor when jitter is on.
BackoffDelay(cfg, attempt, percent) ==
    LET delay == Min(cfg.base_delay * Power(cfg.backoff_factor, attempt - 1),
                     cfg.max_delay)
    IN  IF cfg.jitter THEN (delay * percent) \div 100 ELSE delay

\* What one invocation of func does: it returns, raises one of
\* config.retryable_exceptions, or raises another exception.
FuncOutcomes == {"returns", "retryable", "other"}

InitRetry ==
    /\ all_tools = ScenarioCatalog
    /\ config = DefaultFilterConfig
    /\ settings = DefaultSettings
    /\ session_tools = [s \in {} |-> {}]
    /\ gate = NoGate
    /\ resp = NoResp
    /\ last_list = [s \in {} |-> {}]
    /\ handled = <<>>
    /\ pending = {}
    /\ written = [s \in {} |-> {}]
    /\ intent = NoIntent
    /\ retry = NoRetry

\* retry_with_backoff is entered: last_exception = None, attempt = 0.
\* outcomes lists what each invocation of func did, sleeps the delays slept;
\* raised is the number of the invocation whose exception left the function.
RetryStart(cfg) ==
    /\ retry = NoRetry
    /\ retry' = [config |-> cfg, pc |-> "call", attempt |-> 0, outcomes |-> <<>>,
                 sleeps |-> <<>>, last_exception |-> 0, result |-> None, raised |-> 0]
    /\ UNCHANGED <<all_tools, config, settings, session_tools, gate, resp, last_list,
                   handled, pending, written, intent>>

\* "if attempt > 0: ... await asyncio.sleep(delay)"
RetrySleep(percent) ==
    /\ retry # NoRetry
    /\ retry.pc = "sleep"
    /\ retry' = [retry EXCEPT
                   !.sleeps = Append(@, BackoffDelay(retry.config, retry.attempt, percent)),
                   !.pc = "call"]
    /\ UNCHANGED <<all_tools, config, settings, session_tools, gate, resp, last_list,
                   handled, pending, written, intent>>

\* A loop that retries after every exception, retryable or not.
RetryCallRetryingAll(outcome) ==
    /\ retry # NoRetry
    /\ retry.pc = "call"
    /\ LET n == Len(retry.outcomes) + 1
           called == [retry EXCEPT !.outcomes = Append(@, outcome)]
       IN  retry' =
             IF outcome = "returns"
             THEN [called EXCEPT !.pc = "done", !.result = "returned"]
             ELSE IF retry.attempt = retry.config.max_attempts - 1
             THEN [called EXCEPT !.pc = "done", !.last_exception = n,
                                 !.result = "raised", !.raised = n]
             ELSE [called EXCEPT !.pc = "sleep", !.last_exception = n,
                                 !.attempt = @ + 1]
    /\ UNCHANGED <<all_tools, config, settings, session_tools, gate, resp, last_list,
                   handled, pending, written, intent>>

\* "result = await func(*args, **kwargs)" and the except clauses
RetryCall(outcome) ==
    /\ retry # NoRetry
    /\ retry.pc = "call"
    /\ LET n == Len(retry.outcomes) + 1
           called == [retry EXCEPT !.outcomes = Append(@, outcome)]
       IN  retry' =
             CASE outcome = "returns" ->
                    [called EXCEPT !.pc = "done", !.result = "returned"]
               [] outcome = "other" ->
                    [called EXCEPT !.pc = "done", !.result = "raised", !.raised = n]
               [] outcome = "retryable" ->
                    IF retry.attempt = retry.config.max_attempts - 1
                    THEN [called EXCEPT !.pc = "done", !.last_exception = n,
                                        !.result = "raised", !.raised = n]
                    ELSE [called EXCEPT !.pc = "sleep", !.last_exception = n,
                                        !.attempt = @ + 1]
    /\ UNCHANGED <<all_tools, config, settings, session_tools, gate, resp, last_list,
                   handled, pending, written, intent>>

NextRetry ==
    \/ \E cfg \in RetryConfigs : RetryStart(cfg)
    \/ \E percent \in JitterPercents : RetrySleep(percent)
    \/ \E outcome \in FuncOutcomes : RetryCall(outcome)

\* The event loop resumes the coroutine after each sleep, and func is taken
\* to return or raise in finite time.
SpecRetry == InitRetry /\ [][NextRetry]_vars /\ WF_vars(NextRetry)

RetryDone == retry # NoRetry /\ retry.pc = "done"
AllRetryable(outcomes) == \A i \in DOMAIN outcomes : outcomes[i] = "retryable"

\* The counts of a run: a sleep happens only between two invocations, and
\* a finished run that only met retryable exceptions made max_attempts
\* invocations and max_attempts - 1 sleeps and raised the last exception; a
\* run that met another exception raised it at once.
RetryCounts ==
    retry # NoRetry =>
        /\ Len(retry.outcomes) <= retry.config.max_attempts
        /\ Len(retry.sleeps) = IF retry.pc = "call" THEN Len(retry.outcomes)
                               ELSE Len(retry.outcomes) - 1
        /\ (RetryDone /\ AllRetryable(retry.outcomes)) =>
              /\ Len(retry.outcomes) = retry.config.max_attempts
              /\ Len(retry.sleeps) = retry.config.max_attempts - 1
              /\ retry.result = "raised"
              /\ retry.raised = retry.config.max_attempts
        /\ \A i \in DOMAIN retry.outcomes :
              retry.outcomes[i] = "other" =>
                  /\ RetryDone
                  /\ i = Len(retry.outcomes)
                  /\ retry.result = "raised"
                  /\ retry.raised = i
                  /\ Len(retry.sleeps) = i - 1

\* C22: retry_with_backoff with max_attempts >= 1 terminates, and its
\* invocations, sleeps and the exception it raises are as RetryCounts says.
C22_RetryTerminatesWithExactCounts == []RetryCounts /\ <>RetryDone

\* C22 happens: a run of three attempts that all raised retryable exceptions
\* has finished after two sleeps.
C22_Witness ==
    /\ RetryDone
    /\ retry.config.max_attempts = MaxAttempts
    /\ AllRetryable(retry.outcomes)
    /\ Len(retry.sleeps) = MaxAttempts - 1
    /\ retry.raised = MaxAttempts

\* C23: every delay slept is at most config.max_delay, with and without
\* jitter.
C23_DelayWithinMaxDelay ==
    retry # NoRetry =>
        \A i \in DOMAIN retry.sleeps : retry.sleeps[i] <= retry.config.max_delay

-----------------------------------------------------------------------------
(* Properties of the session binding *)

\* A tools/list has recorded a set for the session of the last request.
SessionRecorded == resp.session \in DOMAIN written

\* C24: a tools/call with a name, on a session whose recorded set is empty,
\* is rejected with -32601 and invokes no collaborator; on a session with a
\* recorded set only tools of that set are invoked (the full catalog is used
\* only when nothing was recorded).
C24_EmptyBindingIsBound ==
    (CallAnswered /\ CallPassesName /\ SessionRecorded) =>
        /\ written[resp.session] = {}
              => (resp.code = METHOD_NOT_FOUND /\ resp.call.invoked = None)
        /\ resp.call.invoked # None => resp.call.invoked \in written[resp.session]

\* C25: no tools/call invokes the collaborator of a blocklisted tool, on a
\* session with a recorded set or without one.
C25_BlocklistedToolNeverInvoked ==
    CallAnswered => resp.call.invoked \notin config.blocklist

\* C26: a tools/list that is answered with a JSON-RPC error leaves
\* session_tools as it was before the request.
C26_FailedListKeepsBinding ==
    [][(resp' # NoResp /\ resp' # resp /\ resp'.req.method = "tools/list"
        /\ resp'.kind = "error")
          => session_tools' = session_tools]_vars

-----------------------------------------------------------------------------
(* Properties of the tools/list metadata and of the task-type resolution *)

\* handle_tools_list: the FilterContext built for a request.
ListContext(st, params, task_type_header) ==
    LET classify == params.query # None /\ st.INTENT_CLASSIFICATION_ENABLED
        task_type0 == IF task_type_header # None THEN task_type_header
                      ELSE params.task_type
    IN  [task_type |-> IF classify /\ st.INTENT_PRECEDENCE = "intent"
                       THEN None ELSE task_type0,
         query |-> params.query,
         detected_task_types |-> IF classify THEN ClassifyIntent(Chars(params.query))
                                 ELSE NoDetection]

\* The last request was a tools/list answered with a result that the gate
\* controller produced, and the stage outputs of that evaluation.
GatedListResult == ListAnswered /\ resp.kind = "result" /\ ~StrictNoMatchList
ListStages ==
    GetAvailableTools(all_tools, config, settings,
                      ListContext(settings, resp.req.params, resp.req.task_type_header))

\* C27: _metadata.filters_applied lists, in pipeline order, exactly the
\* stages whose output set differed from their input set: TaskTypeFilter
\* (from the catalog), ResourceFilter, SecurityFilter and ScopeFilter (from
\* the gate controller's output to the returned tools).
C27_FiltersAppliedAreTheStagesThatChanged ==
    GatedListResult =>
        /\ resp.tools \subseteq ListStages.tools
        /\ resp.meta.filters_applied =
                 (IF ListStages.after_task_type # DOMAIN all_tools
                  THEN <<"TaskTypeFilter">> ELSE <<>>)
              \o (IF ListStages.after_resource # ListStages.after_task_type
                  THEN <<"ResourceFilter">> ELSE <<>>)
              \o (IF ListStages.tools # ListStages.after_resource
                  THEN <<"SecurityFilter">> ELSE <<>>)
              \o (IF resp.tools # ListStages.tools
                  THEN <<"ScopeFilter">> ELSE <<>>)

\* get_available_tools was applied to a context with a query, an empty list
\* of detected task types and an explicit task type whose allowlist is not
\* empty, under a strict or fallback-disabled policy.
StrictNoMatchWithExplicit ==
    /\ gate # NoGate
    /\ gate.ctx.query # None
    /\ gate.ctx.detected_task_types = {}
    /\ gate.ctx.task_type \in DOMAIN config.task_type_allowlists
    /\ config.task_type_allowlists[gate.ctx.task_type] # {}
    /\ (settings.STRICT_CONTEXT_LIMIT \/ ~settings.INTENT_FALLBACK_TO_ALL)

\* C28: in that case the task-type stage and get_available_tools return the
\* empty set, under INTENT_PRECEDENCE "intent" and under "explicit" alike.
C28_StrictNoMatchIgnoresExplicitTaskType ==
    StrictNoMatchWithExplicit =>
        /\ settings.INTENT_PRECEDENCE \in {"intent", "explicit"}
        /\ gate.after_task_type = {}
        /\ gate.tools = {}

\* C28 happens: under "explicit" precedence the explicit task type alone
\* would have kept a tool that the other stages let through.
C28_Witness ==
    /\ StrictNoMatchWithExplicit
    /\ settings.INTENT_PRECEDENCE = "explicit"
    /\ gate.tools = {}
    /\ GetAvailableTools(all_tools, config, settings,
                         [gate.ctx EXCEPT !.query = None,
                                          !.detected_task_types = NoDetection]).tools # {}

\* The last request was a tools/list carrying an explicit task type and a
\* query for which classify_intent found no task type, answered by the gate
\* controller under INTENT_PRECEDENCE "intent" and a permissive policy.
NoMatchWithExplicit ==
    /\ GatedListResult
    /\ RequestedTaskType # None
    /\ resp.req.params.query # None
    /\ settings.INTENT_CLASSIFICATION_ENABLED
    /\ ClassifyIntent(Chars(resp.req.params.query)) = {}
    /\ settings.INTENT_PRECEDENCE = "intent"
    /\ ~settings.STRICT_CONTEXT_LIMIT
    /\ settings.INTENT_FALLBACK_TO_ALL

\* handle_tools_list for the last request with the given params, the session
\* map being the one the request found.
ListAnswerFor(params) ==
    HandleToolsList(all_tools, config, settings, session_tools, params,
                    resp.session, resp.scopes, resp.req.task_type_header)

\* C29: in that case the returned tools are those of the same tools/list
\* without the query, which carries only the explicit task type.
C29_ExplicitTaskTypeIsTheFallback ==
    (/\ NoMatchWithExplicit
     /\ ~ListAnswerFor([resp.req.params EXCEPT !.query = None]).raised)
        => resp.tools = ListAnswerFor([resp.req.params EXCEPT !.query = None]).tools

-----------------------------------------------------------------------------
(* Properties of the truncation and the blocklist together *)

\* The first max_tools tools of the task-type stage's result in the order of
\* ResourceFilter.
FirstMaxTools ==
    {n \in gate.after_task_type :
        Cardinality(Ahead(all_tools, gate.after_task_type, n)) < config.max_tools}

\* C30: when more than max_tools tools pass the task-type stage, the output
\* of get_available_tools is exactly the non-blocklisted members of the first
\* max_tools of them; if one of those is blocklisted the output is smaller
\* than max_tools and contains no tool ranked after them.  In every case the
\* output has at most max_tools tools, all of the catalog.
C30_BlocklistedSlotIsNotRefilled ==
    gate # NoGate =>
        /\ Cardinality(gate.after_task_type) > config.max_tools =>
              /\ gate.tools = FirstMaxTools \ config.blocklist
              /\ FirstMaxTools \cap config.blocklist # {} =>
                    /\ Cardinality(gate.tools) < config.max_tools
                    /\ gate.tools \cap (gate.after_task_type \ FirstMaxTools) = {}
        /\ Cardinality(gate.tools) <= config.max_tools
        /\ gate.tools \subseteq DOMAIN all_tools

\* C30 happens: more than max_tools tools passed the task-type stage, one of
\* the first max_tools is blocklisted, and a tool ranked after them is not
\* blocklisted and still left out.
C30_Witness ==
    /\ gate # NoGate
    /\ Cardinality(gate.after_task_type) > config.max_tools
    /\ FirstMaxTools \cap config.blocklist # {}
    /\ (gate.after_task_type \ FirstMaxTools) \ config.blocklist # {}
    /\ gate.tools = FirstMaxTools \ config.blocklist

====
